---- MODULE Spec2Model ----
(***************************************************************************)
(* Weather dashboard: the statistics and advice functions of               *)
(* src/logic/rules.ts (src/unnamed/part_004) and the callers that feed     *)
(* them an hour list; fetchForecast, fetchAlerts and the geocoder's rate   *)
(* limiter of src/services/forecast.ts; and the App with its SearchBar.    *)
(*                                                                         *)
(* Numbers.  A JavaScript number x is represented by the integer 100 * x   *)
(* (hundredths), so 25.4 is 2540 and 0.05 is 5.  Arithmetic is exact       *)
(* decimal arithmetic: the binary rounding error of IEEE-754 doubles is    *)
(* not represented.  The unrounded mean of sliceNextHours is kept as an    *)
(* exact fraction [num, den] in lowest terms.  A value that may be missing *)
(* (undefined, null or NaN) is <<>> when missing and <<v>> when present.   *)
(***************************************************************************)
EXTENDS Integers, Sequences, FiniteSets, TLC

VARIABLES
    hours, op, arg, ret,
    status, error, city, alerts, isSubmitting, loads,
    lastRequestTime, now, calls, sent

\* The App's state beside its hours (App.tsx 22-37), the SearchBar's
\* isSubmitting, and the loads whose requests are in flight.
appVars == <<status, error, city, alerts, isSubmitting, loads>>

\* The rate limiter of the geocoder (forecast.ts 306), the clock, the
\* geocodeCity calls and the times of the requests they sent.
limiterVars == <<lastRequestTime, now, calls, sent>>

vars == <<hours, op, arg, ret, appVars, limiterVars>>

\* The App before it is mounted: the initial value of useState.
AppNotMounted ==
    /\ status = "idle"
    /\ error = <<>>
    /\ city = <<>>
    /\ alerts = <<>>
    /\ isSubmitting = FALSE
    /\ loads = <<>>

\* The geocoder before any call.
LimiterNotCalled ==
    /\ lastRequestTime = 0
    /\ now = 0
    /\ calls = <<>>
    /\ sent = <<>>

\* One unit (1.0) in hundredths.
Unit == 10 * 10

\* ------------------------------------------------------------------------
\* Bounds of the model

\* Longest hour list the callers hold.
MaxHours == 7

\* Largest window size passed to sliceNextHours.
MaxN == 7

\* The longest window given to computeStats alone.
MaxWindow == 3

\* The most features in an alerts response.
MaxFeatures == 2

\* The most loads of the App with a request in flight at once.
MaxInFlight == 2

\* The number of geocodeCity calls.
MaxCalls == 3

\* The milliseconds the clock runs after the first call may start.
MaxElapsed == 2500

\* ------------------------------------------------------------------------
\* Arithmetic helpers

None == <<>>

Some(v) == <<v>>

\* typeof x === 'number' && !isNaN(x)
IsNumber(x) == Len(x) = 1

\* a ?? b
Coalesce(a, b) == IF IsNumber(a) THEN a[1] ELSE b

Min2(a, b) == IF a <= b THEN a ELSE b

Max2(a, b) == IF a >= b THEN a ELSE b

Abs(a) == IF a < 0 THEN -a ELSE a

RECURSIVE Gcd(_, _)
Gcd(a, b) == IF b = 0 THEN a ELSE Gcd(b, a % b)

\* The fraction num / den (den > 0) in lowest terms.
Frac(num, den) ==
    LET g == Gcd(Abs(num), den)
    IN  [num |-> num \div g, den |-> den \div g]

\* Math.round(x) for x in hundredths: the nearest integer, halves towards
\* +Infinity, returned in hundredths.
MathRound(x) == ((x + 50) \div Unit) * Unit

\* Math.round(x * 10) / 10 for x in hundredths.
MathRound1(x) == ((x + 5) \div 10) * 10

\* Math.round(sum / len) for a sum in hundredths, returned in hundredths.
MathRoundDiv(sum, len) == ((2 * sum + Unit * len) \div (2 * Unit * len)) * Unit

\* Math.min(...xs), Math.max(...xs) and xs.reduce((s, x) => s + x, 0) over a
\* non-empty sequence of numbers.
RECURSIVE MathMin(_)
MathMin(xs) ==
    IF Len(xs) = 1 THEN xs[1] ELSE Min2(xs[1], MathMin(Tail(xs)))

RECURSIVE MathMax(_)
MathMax(xs) ==
    IF Len(xs) = 1 THEN xs[1] ELSE Max2(xs[1], MathMax(Tail(xs)))

RECURSIVE Sum(_)
Sum(xs) == IF xs = <<>> THEN 0 ELSE xs[1] + Sum(Tail(xs))

\* slice with an end that is one too far.
Slice0Inclusive(xs, n) ==
    LET end == IF n < 0 THEN Max2(Len(xs) + n, 0) ELSE Min2(n + 1, Len(xs))
    IN  SubSeq(xs, 1, end)

\* xs.slice(0, n): a negative end counts from the end of the array.
Slice0(xs, n) ==
    LET end == IF n < 0 THEN Max2(Len(xs) + n, 0) ELSE Min2(n, Len(xs))
    IN  SubSeq(xs, 1, end)

\* ------------------------------------------------------------------------
\* computeApparentTemperature

\* The Rothfusz regression of lines 23-26, rounded as line 27 rounds it,
\* evaluated at the (temp, humidity) pairs the model uses.
HeatIndex(temp, humidity) ==
    CASE temp = 2700 /\ humidity = 4000 -> 2690
      [] temp = 2700 /\ humidity = 5000 -> 2740
      [] temp = 2700 /\ humidity = 8000 -> 2970
      [] temp = 3200 /\ humidity = 4000 -> 3230
      [] temp = 3200 /\ humidity = 5000 -> 3440
      [] temp = 3200 /\ humidity = 8000 -> 4440

\* The wind-chill formula of line 31, rounded as line 32 rounds it,
\* evaluated at the (temp, wind) pairs the model uses.
WindChill(temp, wind) ==
    CASE temp = -500 /\ wind = 480  -> -710
      [] temp = -500 /\ wind = 1500 -> -1060
      [] temp = -500 /\ wind = 2500 -> -1230
      [] temp = 1000 /\ wind = 480  -> 980
      [] temp = 1000 /\ wind = 1500 -> 790
      [] temp = 1000 /\ wind = 2500 -> 690
      [] temp = 1010 /\ wind = 480  -> 990
      [] temp = 1010 /\ wind = 1500 -> 800
      [] temp = 1010 /\ wind = 2500 -> 710
      [] temp = 1234 /\ wind = 480  -> 1250
      [] temp = 1234 /\ wind = 1500 -> 1080
      [] temp = 1234 /\ wind = 2500 -> 990
      [] temp = 2690 /\ wind = 480  -> 2890
      [] temp = 2690 /\ wind = 1500 -> 2880
      [] temp = 2690 /\ wind = 2500 -> 2870
      [] temp = 2700 /\ wind = 480  -> 2900
      [] temp = 2700 /\ wind = 1500 -> 2890
      [] temp = 2700 /\ wind = 2500 -> 2880

\* The heat-index test with a strict temperature bound.
HeatIndexAppliesStrict(a) == a.temp > 27 * Unit /\ a.humidity >= 40 * Unit

\* temp >= 27 && humidity >= 40, line 21.
HeatIndexApplies(a) == a.temp >= 27 * Unit /\ a.humidity >= 40 * Unit

\* The wind-chill test reaching up to the heat-index threshold.
WindChillAppliesUpTo27(a) == a.temp <= 27 * Unit /\ a.wind >= 480

\* The wind-chill test with a strict wind bound.
WindChillAppliesStrict(a) == a.temp <= 10 * Unit /\ a.wind > 480

\* temp <= 10 && wind >= 4.8, line 30.
WindChillApplies(a) == a.temp <= 10 * Unit /\ a.wind >= 480

\* The formulas tested before the measured value.
computeApparentTemperatureFormulaFirst(a) ==
    IF HeatIndexApplies(a) THEN HeatIndex(a.temp, a.humidity)
    ELSE IF WindChillApplies(a) THEN WindChill(a.temp, a.wind)
    ELSE IF IsNumber(a.apparent) THEN a.apparent[1]
    ELSE MathRound1(a.temp)

\* a = [temp, humidity, wind, apparent], apparent possibly missing.
computeApparentTemperature(a) ==
    IF IsNumber(a.apparent) THEN a.apparent[1]
    ELSE IF HeatIndexApplies(a) THEN HeatIndex(a.temp, a.humidity)
    ELSE IF WindChillApplies(a) THEN WindChill(a.temp, a.wind)
    ELSE MathRound1(a.temp)

\* ------------------------------------------------------------------------
\* computeStats and sliceNextHours

\* Stats of an empty window with a marker in place of the zero maxima.
ZeroStatsMarked ==
    [minApparent |-> 0, maxApparent |-> 0, avgApparent |-> Frac(0, 1),
     maxPOP |-> -1, sumPrecip |-> 0, maxUV |-> -1, maxWind |-> -1]

ZeroStats ==
    [minApparent |-> 0, maxApparent |-> 0, avgApparent |-> Frac(0, 1),
     maxPOP |-> 0, sumPrecip |-> 0, maxUV |-> 0, maxWind |-> 0]

\* The argument with a humidity of 40 for an hour that carries none.
ApparentArgsHumidity40(h) ==
    [temp     |-> h.temp,
     humidity |-> Coalesce(h.humidity, 40 * Unit),
     wind     |-> h.wind,
     apparent |-> h.apparent]

\* The argument computeStats builds for one hour (lines 66-71).
ApparentArgs(h) ==
    [temp     |-> h.temp,
     humidity |-> Coalesce(h.humidity, 50 * Unit),
     wind     |-> h.wind,
     apparent |-> h.apparent]

\* hours.map(h => computeApparentTemperature({...})), lines 66-71.
ResolvedApparents(hs) ==
    [i \in 1..Len(hs) |-> computeApparentTemperature(ApparentArgs(hs[i]))]

\* hours.map(h => h.apparent), hours.map(h => h.pop), ... (lines 215-219).
Apparents(hs) == [i \in 1..Len(hs) |-> hs[i].apparent[1]]

Pops(hs) == [i \in 1..Len(hs) |-> hs[i].pop]

Precips(hs) == [i \in 1..Len(hs) |-> hs[i].precip]

Uvs(hs) == [i \in 1..Len(hs) |-> hs[i].uv]

Winds(hs) == [i \in 1..Len(hs) |-> hs[i].wind]

\* Math.round(xs.reduce((sum, t) => sum + t, 0) / xs.length), line 80.
RoundedMean(xs) == Frac(MathRoundDiv(Sum(xs), Len(xs)), 1)

\* The sum divided by the window size asked for instead of the length.
MeanOfSix(xs) == Frac(Sum(xs), 6)

\* xs.reduce((sum, temp) => sum + temp, 0) / xs.length, line 224.
Mean(xs) == Frac(Sum(xs), Len(xs))

computeStats(hs) ==
    IF Len(hs) = 0 THEN ZeroStats
    ELSE
      LET apparentTemps == ResolvedApparents(hs)
      IN  [minApparent |-> MathRound(MathMin(apparentTemps)),
           maxApparent |-> MathRound(MathMax(apparentTemps)),
           avgApparent |-> RoundedMean(apparentTemps),
           maxPOP      |-> MathRound(MathMax(Pops(hs))),
           sumPrecip   |-> MathRound1(Sum(Precips(hs))),
           maxUV       |-> MathRound(MathMax(Uvs(hs))),
           maxWind     |-> MathRound(MathMax(Winds(hs)))]

sliceNextHours(hs, n) ==
    LET nextHours == Slice0(hs, n)
    IN  IF Len(nextHours) = 0
        THEN [hours |-> <<>>, stats |-> ZeroStats]
        ELSE
          LET apparentTemps == Apparents(nextHours)
          IN  [hours |-> nextHours,
               stats |->
                 [minApparent |-> MathMin(apparentTemps),
                  maxApparent |-> MathMax(apparentTemps),
                  avgApparent |-> Mean(apparentTemps),
                  maxPOP      |-> MathMax(Pops(nextHours)),
                  sumPrecip   |-> Sum(Precips(nextHours)),
                  maxUV       |-> MathMax(Uvs(nextHours)),
                  maxWind     |-> MathMax(Winds(nextHours))]]

\* ------------------------------------------------------------------------
\* Comparisons of the mean (a fraction) with a number in hundredths

FracLT(f, k) == f.num < k * f.den

FracGT(f, k) == f.num > k * f.den

FracLE(f, k) == f.num <= k * f.den

FracGE(f, k) == f.num >= k * f.den

\* ------------------------------------------------------------------------
\* buildAdvice

NoDataAdvice ==
    [badges |-> <<>>, text |-> "No weather data available for guidance."]

\* computeStats(nextHours.slice(0, 6)), line 108.
SummaryStatsWhole(nextHours) == computeStats(nextHours)

SummaryStats(nextHours) == computeStats(Slice0(nextHours, 6))

\* The precipitation window as wide as the statistics window.
Next6Hours(nextHours) == Slice0(nextHours, 6)

\* nextHours.slice(0, 3), line 109.
Next3Hours(nextHours) == Slice0(nextHours, 3)

Max3HourPOP(nextHours) == MathMax(Pops(Next3Hours(nextHours)))

Total3HourPrecip(nextHours) == Sum(Precips(Next3Hours(nextHours)))

\* The badge conditions of lines 116-134, in the order they are tested.
UmbrellaBadge(nextHours) ==
    Max3HourPOP(nextHours) >= 60 * Unit /\ Total3HourPrecip(nextHours) >= 20

SunscreenBadge(stats) == stats.maxUV >= 6 * Unit

WindBadge(stats) == stats.maxWind >= 10 * Unit

\* The heat badge with the bound included.
HeatBadgeFrom25(stats) == FracGE(stats.avgApparent, 25 * Unit)

HeatBadge(stats) == FracGT(stats.avgApparent, 25 * Unit)

LayeredBadge(stats) == FracLT(stats.avgApparent, 0)

Badges(nextHours) ==
    LET stats == SummaryStats(nextHours)
    IN  (IF UmbrellaBadge(nextHours) THEN <<"Umbrella recommended">> ELSE <<>>)
        \o (IF SunscreenBadge(stats) THEN <<"Sunscreen recommended">> ELSE <<>>)
        \o (IF WindBadge(stats) THEN <<"Wind caution">> ELSE <<>>)
        \o (IF HeatBadge(stats) THEN <<"Heat comfort tips">> ELSE <<>>)
        \o (IF LayeredBadge(stats)
            THEN <<"Layered clothing recommended">> ELSE <<>>)

\* The clauses of lines 137-163.
TemperatureClause(stats) ==
    IF FracLT(stats.avgApparent, 0)
    THEN "very cold temperatures with possible wind chill effects"
    ELSE IF FracGT(stats.avgApparent, 25 * Unit)
    THEN "warm to hot conditions with elevated comfort concerns"
    ELSE IF FracGE(stats.avgApparent, 15 * Unit)
    THEN "pleasant temperatures suitable for most outdoor activities"
    ELSE "cool conditions requiring appropriate clothing"

RainClause(nextHours) ==
    IF Max3HourPOP(nextHours) >= 60 * Unit
    THEN ", with rain likely in the next 3 hours"
    ELSE IF Max3HourPOP(nextHours) >= 30 * Unit
    THEN ", with possible precipitation"
    ELSE ""

WindClause(stats) ==
    IF stats.maxWind >= 10 * Unit THEN ", and notable wind activity" ELSE ""

UvClause(stats) ==
    IF stats.maxUV >= 6 * Unit THEN ", with elevated UV exposure" ELSE ""

Text(nextHours) ==
    LET stats == SummaryStats(nextHours)
    IN  "Weather conditions for the next 6 hours: "
        \o TemperatureClause(stats)
        \o RainClause(nextHours)
        \o WindClause(stats)
        \o UvClause(stats)
        \o "."

\* buildAdvice with the empty result of the application's getAdviceData.
buildAdviceEmptyText(nextHours) ==
    IF Len(nextHours) = 0 THEN [badges |-> <<>>, text |-> ""]
    ELSE [badges |-> Badges(nextHours), text |-> Text(nextHours)]

buildAdvice(nextHours) ==
    IF Len(nextHours) = 0 THEN NoDataAdvice
    ELSE [badges |-> Badges(nextHours), text |-> Text(nextHours)]

\* ------------------------------------------------------------------------
\* generateOutfitAdvice.  An icon is written as its code points.

HeavyCoat ==
    [id |-> "heavy-coat", category |-> "clothing",
     message |-> "Wear a heavy winter coat, gloves, and warm hat. It feels freezing cold!",
     icon |-> "U+1F9E5", severity |-> "high", color |-> "#1e40af"]

WarmLayers ==
    [id |-> "warm-layers", category |-> "clothing",
     message |-> "Dress in warm layers with a jacket. It's quite chilly out there.",
     icon |-> "U+1F9E5", severity |-> "medium", color |-> "#3b82f6"]

LightClothing ==
    [id |-> "light-clothing", category |-> "clothing",
     message |-> "Wear light, breathable clothing. It's going to be hot!",
     icon |-> "U+1F455", severity |-> "medium", color |-> "#f59e0b"]

ComfortableClothing ==
    [id |-> "comfortable-clothing", category |-> "clothing",
     message |-> "Dress comfortably in light layers. Perfect weather for being outside!",
     icon |-> "U+1F455", severity |-> "low", color |-> "#10b981"]

LayeredClothing ==
    [id |-> "layered-clothing", category |-> "clothing",
     message |-> "Temperature will vary a lot - dress in layers you can add or remove.",
     icon |-> "U+1F504", severity |-> "medium", color |-> "#8b5cf6"]

UmbrellaRain ==
    [id |-> "umbrella-rain", category |-> "accessories",
     message |-> "Bring an umbrella or waterproof jacket. Rain is very likely!",
     icon |-> "U+2614", severity |-> "high", color |-> "#3b82f6"]

UmbrellaMaybe ==
    [id |-> "umbrella-maybe", category |-> "accessories",
     message |-> "Consider bringing an umbrella - there's a chance of rain.",
     icon |-> "U+1F326 U+FE0F", severity |-> "medium", color |-> "#6b7280"]

SunscreenHigh ==
    [id |-> "sunscreen-high", category |-> "safety",
     message |-> "Apply SPF 30+ sunscreen and wear sunglasses. UV levels are very high!",
     icon |-> "U+2600 U+FE0F", severity |-> "high", color |-> "#f59e0b"]

SunscreenMedium ==
    [id |-> "sunscreen-medium", category |-> "safety",
     message |-> "Don't forget sunscreen and a hat. UV levels are moderate to high.",
     icon |-> "U+1F9F4", severity |-> "medium", color |-> "#f59e0b"]

Sunglasses ==
    [id |-> "sunglasses", category |-> "comfort",
     message |-> "Sunglasses recommended for comfort in bright conditions.",
     icon |-> "U+1F576 U+FE0F", severity |-> "low", color |-> "#10b981"]

WindWarning ==
    [id |-> "wind-warning", category |-> "safety",
     message |-> "Very windy conditions! Secure loose items and be careful outdoors.",
     icon |-> "U+1F4A8", severity |-> "high", color |-> "#dc2626"]

\* wind-caution with the category and severity of wind-warning.
WindCautionAsWarning ==
    [id |-> "wind-caution", category |-> "safety",
     message |-> "It's quite windy - consider a windbreaker or secure hat.",
     icon |-> "U+1F32C U+FE0F", severity |-> "high", color |-> "#f59e0b"]

WindCaution ==
    [id |-> "wind-caution", category |-> "comfort",
     message |-> "It's quite windy - consider a windbreaker or secure hat.",
     icon |-> "U+1F32C U+FE0F", severity |-> "medium", color |-> "#f59e0b"]

PerfectWeather ==
    [id |-> "perfect-weather", category |-> "comfort",
     message |-> "Perfect weather for outdoor activities! Enjoy your time outside.",
     icon |-> "U+1F31F", severity |-> "low", color |-> "#10b981"]

\* The clothing chain with the heavy coat below zero only.
ClothingAdviceBelowZero(stats) ==
    IF stats.minApparent < 0 THEN <<HeavyCoat>>
    ELSE IF stats.minApparent <= 10 * Unit THEN <<WarmLayers>>
    ELSE IF stats.maxApparent >= 30 * Unit THEN <<LightClothing>>
    ELSE IF stats.maxApparent >= 25 * Unit THEN <<ComfortableClothing>>
    ELSE <<>>

\* The clothing chain with the hot branches tested on their own.
ClothingAdviceNoElse(stats) ==
    (IF stats.minApparent <= 0 THEN <<HeavyCoat>>
     ELSE IF stats.minApparent <= 10 * Unit THEN <<WarmLayers>> ELSE <<>>)
    \o (IF stats.maxApparent >= 30 * Unit THEN <<LightClothing>>
        ELSE IF stats.maxApparent >= 25 * Unit THEN <<ComfortableClothing>>
        ELSE <<>>)

\* Lines 246-282: the temperature-based clothing chain.
ClothingAdvice(stats) ==
    IF stats.minApparent <= 0 THEN <<HeavyCoat>>
    ELSE IF stats.minApparent <= 10 * Unit THEN <<WarmLayers>>
    ELSE IF stats.maxApparent >= 30 * Unit THEN <<LightClothing>>
    ELSE IF stats.maxApparent >= 25 * Unit THEN <<ComfortableClothing>>
    ELSE <<>>

\* The range test with >= in place of >.
RangeAdviceInclusive(stats) ==
    IF (stats.maxApparent - stats.minApparent) >= 15 * Unit
    THEN <<LayeredClothing>> ELSE <<>>

\* Lines 285-294: the temperature range.
RangeAdvice(stats) ==
    IF (stats.maxApparent - stats.minApparent) > 15 * Unit
    THEN <<LayeredClothing>> ELSE <<>>

\* The precipitation tests with both conditions required.
RainAdviceBoth(stats) ==
    IF stats.maxPOP >= 70 * Unit /\ stats.sumPrecip > 2 * Unit
    THEN <<UmbrellaRain>>
    ELSE IF stats.maxPOP >= 40 * Unit /\ stats.sumPrecip > 50
    THEN <<UmbrellaMaybe>>
    ELSE <<>>

\* Lines 297-315: precipitation.
RainAdvice(stats) ==
    IF stats.maxPOP >= 70 * Unit \/ stats.sumPrecip > 2 * Unit
    THEN <<UmbrellaRain>>
    ELSE IF stats.maxPOP >= 40 * Unit \/ stats.sumPrecip > 50
    THEN <<UmbrellaMaybe>>
    ELSE <<>>

\* Lines 318-345: UV protection.
UvAdvice(stats) ==
    IF stats.maxUV >= 8 * Unit THEN <<SunscreenHigh>>
    ELSE IF stats.maxUV >= 6 * Unit THEN <<SunscreenMedium>>
    ELSE IF stats.maxUV >= 3 * Unit THEN <<Sunglasses>>
    ELSE <<>>

\* Lines 348-366: wind.
WindAdvice(stats) ==
    IF stats.maxWind >= 50 * Unit THEN <<WindWarning>>
    ELSE IF stats.maxWind >= 30 * Unit THEN <<WindCaution>>
    ELSE <<>>

\* The comfort test with the upper bound excluded.
ComfortAdviceBelow25(stats) ==
    IF /\ FracGE(stats.avgApparent, 20 * Unit)
       /\ FracLT(stats.avgApparent, 25 * Unit)
       /\ stats.maxPOP < 30 * Unit
       /\ stats.maxWind < 20 * Unit
    THEN <<PerfectWeather>> ELSE <<>>

\* Lines 369-378: general comfort.
ComfortAdvice(stats) ==
    IF /\ FracGE(stats.avgApparent, 20 * Unit)
       /\ FracLE(stats.avgApparent, 25 * Unit)
       /\ stats.maxPOP < 30 * Unit
       /\ stats.maxWind < 20 * Unit
    THEN <<PerfectWeather>> ELSE <<>>

\* The precipitation advice pushed before the range advice.
generateOutfitAdviceRainFirst(stats) ==
    ClothingAdvice(stats) \o RainAdvice(stats) \o RangeAdvice(stats)
        \o UvAdvice(stats) \o WindAdvice(stats) \o ComfortAdvice(stats)

generateOutfitAdvice(stats) ==
    ClothingAdvice(stats) \o RangeAdvice(stats) \o RainAdvice(stats)
        \o UvAdvice(stats) \o WindAdvice(stats) \o ComfortAdvice(stats)

\* ------------------------------------------------------------------------
\* Inputs.  Every field of an hour the application holds is a number:
\* mapToHourlyItems replaces a missing value by 0 and sets no humidity.

Hour(temp, apparent, pop, precip, wind, uv) ==
    [temp |-> temp, apparent |-> Some(apparent), pop |-> pop,
     precip |-> precip, wind |-> wind, uv |-> uv, humidity |-> None]

\* The three scenarios of the test script, and hours at and around the
\* thresholds of buildAdvice.
ColdWinterHour == Hour(-500, -1000, 2000, 0, 2500, 200)

HotSummerHour == Hour(3200, 3500, 1000, 0, 1500, 900)

RainyHour == Hour(1800, 1600, 8500, 300, 2000, 300)

\* apparent 25.4, pop 60, precip 0.1, wind 9.5, uv 5.5
ShowerHour == Hour(2400, 2540, 6000, 10, 950, 550)

\* apparent 25.4, pop 60, precip 0.05, wind 5, uv 2
DrizzleHour == Hour(2400, 2540, 6000, 5, 500, 200)

\* apparent -0.4, pop 30, precip 0, wind 10, uv 6
FrostHour == Hour(100, -40, 3000, 0, 1000, 600)

\* apparent 15, pop 59, precip 1, wind 9.4, uv 5.4
MildHour == Hour(1500, 1500, 5900, 100, 940, 540)

Samples ==
    {ColdWinterHour, HotSummerHour, RainyHour, ShowerHour, DrizzleHour,
     FrostHour, MildHour}

\* Hour lists of up to MaxHours hours, each hour one of two samples.
HoursInputs ==
    UNION { { [i \in 1..len |-> IF i \in pick THEN a ELSE b] :
                pick \in SUBSET (1..len) } :
            <<a, b, len>> \in Samples \X Samples \X (0..MaxHours) }

\* Window sizes, the non-positive ones included.
WindowSizes == (-1)..MaxN

\* ------------------------------------------------------------------------
\* The callers: a holder of an hour list applies the functions to it.

Init ==
    /\ hours \in HoursInputs
    /\ op = "init"
    /\ arg = <<>>
    /\ ret = <<>>
    /\ AppNotMounted
    /\ LimiterNotCalled

\* sliceNextHours(hours, n)
SliceNextHours ==
    \E n \in WindowSizes :
        /\ op' = "sliceNextHours"
        /\ arg' = n
        /\ ret' = sliceNextHours(hours, n)
        /\ UNCHANGED <<hours, appVars, limiterVars>>

\* computeStats(hours)
ComputeStats ==
    /\ op' = "computeStats"
    /\ arg' = <<>>
    /\ ret' = computeStats(hours)
    /\ UNCHANGED <<hours, appVars, limiterVars>>

\* buildAdvice(hours)
BuildAdvice ==
    /\ op' = "buildAdvice"
    /\ arg' = <<>>
    /\ ret' = buildAdvice(hours)
    /\ UNCHANGED <<hours, appVars, limiterVars>>

\* The OutfitAdvice component: the advice for the next six hours.
OutfitAdvice ==
    /\ op' = "OutfitAdvice"
    /\ arg' = sliceNextHours(hours, 6).stats
    /\ ret' = generateOutfitAdvice(sliceNextHours(hours, 6).stats)
    /\ UNCHANGED <<hours, appVars, limiterVars>>

Next == SliceNextHours \/ ComputeStats \/ BuildAdvice \/ OutfitAdvice

Spec == Init /\ [][Next]_vars

\* ------------------------------------------------------------------------
\* The functions of one argument record, applied to arguments drawn from
\* small sets around their thresholds.

MinApparentValues == {-500, 0, 50, 1000, 1050, 1500}

MaxApparentValues == {0, 1000, 1600, 2450, 2500, 2600, 2950, 3000, 3200}

AvgApparentValues == {1990, 2000, 2250, 2500, 2550}

MaxPopValues == {2900, 3000, 3900, 4000, 6900, 7000}

SumPrecipValues == {0, 50, 60, 200, 210}

MaxUvValues == {290, 300, 590, 600, 790, 800}

MaxWindValues == {1900, 2000, 2900, 3000, 4900, 5000}

\* HourlyStats records whose mean lies between the minimum and the maximum.
StatsInputs ==
    { [minApparent |-> mn, maxApparent |-> mx, avgApparent |-> Frac(av, 1),
       maxPOP |-> pp, sumPrecip |-> sp, maxUV |-> uv, maxWind |-> wd] :
      <<mn, mx, av, pp, sp, uv, wd>> \in
        { t \in MinApparentValues \X MaxApparentValues
                  \X (AvgApparentValues \cup MinApparentValues
                        \cup MaxApparentValues)
                  \X MaxPopValues \X SumPrecipValues \X MaxUvValues
                  \X MaxWindValues :
            t[1] <= t[3] /\ t[3] <= t[2] } }

\* Arguments of computeApparentTemperature; the measured value may be missing.
ApparentInputs ==
    [temp     : {-500, 1000, 1010, 1234, 2690, 2700, 3200},
     humidity : {3900, 4000, 5000, 8000},
     wind     : {470, 480, 1500, 2500},
     apparent : {None, Some(-1000), Some(0), Some(2540), Some(3500)}]

\* generateOutfitAdvice applied to a stats record.
InitOutfit ==
    /\ hours = <<>>
    /\ op = "init"
    /\ arg \in StatsInputs
    /\ ret = <<>>
    /\ AppNotMounted
    /\ LimiterNotCalled

GenerateOutfitAdvice ==
    /\ op' = "generateOutfitAdvice"
    /\ ret' = generateOutfitAdvice(arg)
    /\ UNCHANGED <<hours, arg, appVars, limiterVars>>

NextOutfit == GenerateOutfitAdvice

SpecOutfit == InitOutfit /\ [][NextOutfit]_vars

\* computeApparentTemperature applied to an argument record.
InitApparent ==
    /\ hours = <<>>
    /\ op = "init"
    /\ arg \in ApparentInputs
    /\ ret = <<>>
    /\ AppNotMounted
    /\ LimiterNotCalled

ComputeApparentTemperature ==
    /\ op' = "computeApparentTemperature"
    /\ ret' = computeApparentTemperature(arg)
    /\ UNCHANGED <<hours, arg, appVars, limiterVars>>

NextApparent == ComputeApparentTemperature

SpecApparent == InitApparent /\ [][NextApparent]_vars

\* ========================================================================
\* Properties

\* The ids of the items of an advice list, and the labels of a badge list.
Ids(advice) == { advice[i].id : i \in DOMAIN advice }

Labels(badges) == { badges[i] : i \in DOMAIN badges }

ClothingChainIds ==
    {"heavy-coat", "warm-layers", "light-clothing", "comfortable-clothing"}

\* Aggregates written from their mathematical definitions.
SetMax(S) == CHOOSE x \in S : \A y \in S : y <= x

SetMin(S) == CHOOSE x \in S : \A y \in S : x <= y

RECURSIVE Total(_, _)
Total(xs, k) == IF k = 0 THEN 0 ELSE xs[k] + Total(xs, k - 1)

\* C1: generateOutfitAdvice returns at most one of the four clothing-chain
\* items, chosen by first match: heavy-coat iff minApparent <= 0; warm-layers
\* iff 0 < minApparent <= 10; light-clothing iff minApparent > 10 and
\* maxApparent >= 30; comfortable-clothing iff minApparent > 10 and
\* 25 <= maxApparent < 30; none of the four otherwise.
C1_ClothingChain ==
    op = "generateOutfitAdvice" =>
      LET mn == arg.minApparent
          mx == arg.maxApparent
          ids == Ids(ret)
      IN  /\ Cardinality({ i \in DOMAIN ret : ret[i].id \in ClothingChainIds }) <= 1
          /\ "heavy-coat" \in ids <=> mn <= 0
          /\ "warm-layers" \in ids <=> (0 < mn /\ mn <= 1000)
          /\ "light-clothing" \in ids <=> (mn > 1000 /\ mx >= 3000)
          /\ "comfortable-clothing" \in ids <=>
                 (mn > 1000 /\ 2500 <= mx /\ mx < 3000)

\* A hot window above the cold thresholds gets light-clothing.
C1_Witness ==
    /\ op = "generateOutfitAdvice"
    /\ arg.minApparent = 1500
    /\ arg.maxApparent = 3200
    /\ "light-clothing" \in Ids(ret)

\* C2: layered-clothing is produced exactly when maxApparent - minApparent
\* > 15, whichever clothing-chain item fired; for minApparent = -5 and
\* maxApparent = 32 the result has heavy-coat and layered-clothing and has no
\* light-clothing.
C2_LayeredIndependent ==
    op = "generateOutfitAdvice" =>
      LET ids == Ids(ret)
      IN  /\ "layered-clothing" \in ids <=>
                 arg.maxApparent - arg.minApparent > 1500
          /\ (arg.minApparent = -500 /\ arg.maxApparent = 3200) =>
                 /\ "heavy-coat" \in ids
                 /\ "layered-clothing" \in ids
                 /\ "light-clothing" \notin ids

C2_Witness ==
    /\ op = "generateOutfitAdvice"
    /\ arg.minApparent = -500
    /\ arg.maxApparent = 3200
    /\ {"heavy-coat", "layered-clothing"} \subseteq Ids(ret)

\* C10: computeApparentTemperature returns the measured apparent temperature
\* unchanged whenever it is a valid number, whatever temp, humidity and wind
\* are.
C10_MeasuredPassthrough ==
    (op = "computeApparentTemperature" /\ IsNumber(arg.apparent)) =>
        ret = arg.apparent[1]

\* A measured value returned although the heat-index condition holds.
C10_Witness ==
    /\ op = "computeApparentTemperature"
    /\ IsNumber(arg.apparent)
    /\ arg.temp >= 2700
    /\ arg.humidity >= 4000
    /\ ret = arg.apparent[1]

\* ------------------------------------------------------------------------
\* The aggregates of a hour list's first k hours, unrounded.

Window(hs, k) == 1..(IF k <= Len(hs) THEN k ELSE Len(hs))

TrueMaxPop(hs, k) == SetMax({ hs[i].pop : i \in Window(hs, k) })

TrueSumPrecip(hs, k) ==
    Total([i \in Window(hs, k) |-> hs[i].precip], Cardinality(Window(hs, k)))

TrueMaxUv(hs, k) == SetMax({ hs[i].uv : i \in Window(hs, k) })

TrueMaxWind(hs, k) == SetMax({ hs[i].wind : i \in Window(hs, k) })

TrueMinApparent(hs, k) == SetMin({ hs[i].apparent[1] : i \in Window(hs, k) })

TrueMaxApparent(hs, k) == SetMax({ hs[i].apparent[1] : i \in Window(hs, k) })

TrueSumApparent(hs, k) ==
    Total([i \in Window(hs, k) |-> hs[i].apparent[1]],
          Cardinality(Window(hs, k)))

\* The badges the rules of the specification give, rule by rule, with the
\* six-hour aggregates unrounded.
RuleBadges(hs) ==
    LET n6 == Cardinality(Window(hs, 6))
    IN  (IF TrueMaxPop(hs, 3) >= 6000 /\ TrueSumPrecip(hs, 3) >= 20
         THEN <<"Umbrella recommended">> ELSE <<>>)
        \o (IF TrueMaxUv(hs, 6) >= 600
            THEN <<"Sunscreen recommended">> ELSE <<>>)
        \o (IF TrueMaxWind(hs, 6) >= 1000 THEN <<"Wind caution">> ELSE <<>>)
        \o (IF TrueSumApparent(hs, 6) > 2500 * n6
            THEN <<"Heat comfort tips">> ELSE <<>>)
        \o (IF TrueSumApparent(hs, 6) < 0
            THEN <<"Layered clothing recommended">> ELSE <<>>)

\* The sentence the clauses of the specification give, with the six-hour
\* aggregates unrounded.
RuleText(hs) ==
    LET n6 == Cardinality(Window(hs, 6))
        sum == TrueSumApparent(hs, 6)
    IN  "Weather conditions for the next 6 hours: "
        \o (IF sum < 0
            THEN "very cold temperatures with possible wind chill effects"
            ELSE IF sum > 2500 * n6
            THEN "warm to hot conditions with elevated comfort concerns"
            ELSE IF sum >= 1500 * n6
            THEN "pleasant temperatures suitable for most outdoor activities"
            ELSE "cool conditions requiring appropriate clothing")
        \o (IF TrueMaxPop(hs, 3) >= 6000
            THEN ", with rain likely in the next 3 hours"
            ELSE IF TrueMaxPop(hs, 3) >= 3000
            THEN ", with possible precipitation"
            ELSE "")
        \o (IF TrueMaxWind(hs, 6) >= 1000
            THEN ", and notable wind activity" ELSE "")
        \o (IF TrueMaxUv(hs, 6) >= 600
            THEN ", with elevated UV exposure" ELSE "")
        \o "."

AllOf(hs, h) == \A i \in DOMAIN hs : hs[i] = h

\* C3: for a non-empty input, buildAdvice's badges are exactly the rules
\* that hold, in the order umbrella, sunscreen, wind, heat, layered, the
\* rules being: 3-hour max POP >= 60 and 3-hour precipitation sum >= 0.2;
\* maxUV >= 6; maxWind >= 10; avgApparent > 25; avgApparent < 0, over the
\* first 6 hours.  Six cold-winter hours give Wind caution and Layered
\* clothing recommended only; six hot-summer hours give Sunscreen
\* recommended, Wind caution and Heat comfort tips.
C3_BadgesAreTheRules ==
    (op = "buildAdvice" /\ Len(hours) > 0) =>
        /\ ret.badges = RuleBadges(hours)
        /\ (Len(hours) = 6 /\ AllOf(hours, ColdWinterHour)) =>
               ret.badges = <<"Wind caution", "Layered clothing recommended">>
        /\ (Len(hours) = 6 /\ AllOf(hours, HotSummerHour)) =>
               ret.badges = <<"Sunscreen recommended", "Wind caution",
                              "Heat comfort tips">>

\* C4: buildAdvice tests its thresholds on the unrounded aggregates of the
\* first 6 hours: the heat badge iff the mean apparent temperature is > 25,
\* the layered badge iff it is < 0, the sunscreen badge iff the maximum UV is
\* >= 6, the wind badge iff the maximum wind is >= 10, and the sentence's
\* clauses (among them the pleasant clause for a mean >= 15) likewise.
C4_UnroundedThresholds ==
    (op = "buildAdvice" /\ Len(hours) > 0) =>
        LET n6 == Cardinality(Window(hours, 6))
            labels == Labels(ret.badges)
        IN  /\ "Heat comfort tips" \in labels <=>
                   TrueSumApparent(hours, 6) > 2500 * n6
            /\ "Layered clothing recommended" \in labels <=>
                   TrueSumApparent(hours, 6) < 0
            /\ "Sunscreen recommended" \in labels <=>
                   TrueMaxUv(hours, 6) >= 600
            /\ "Wind caution" \in labels <=> TrueMaxWind(hours, 6) >= 1000
            /\ ret.text = RuleText(hours)

\* C5: buildAdvice adds Umbrella recommended exactly when, over the first 3
\* hours, max POP >= 60 and the precipitation sum >= 0.2; with pop 60 in all
\* three it fires for precipitation 0.1, 0.1, 0.05 and not for 0.05, 0.05,
\* 0.05; later hours have no influence.
C5_UmbrellaFirstThreeHours ==
    (op = "buildAdvice" /\ Len(hours) > 0) =>
        LET umbrella == "Umbrella recommended" \in Labels(ret.badges)
        IN  /\ umbrella <=> (/\ TrueMaxPop(hours, 3) >= 6000
                             /\ TrueSumPrecip(hours, 3) >= 20)
            /\ (Len(hours) >= 3 /\ SubSeq(hours, 1, 3)
                    = <<ShowerHour, ShowerHour, DrizzleHour>>) => umbrella
            /\ (Len(hours) >= 3 /\ SubSeq(hours, 1, 3)
                    = <<DrizzleHour, DrizzleHour, DrizzleHour>>) => ~umbrella

\* Precipitation 0.1, 0.1, 0.05 followed by three more hours.
C5_Witness ==
    /\ op = "buildAdvice"
    /\ Len(hours) = 6
    /\ SubSeq(hours, 1, 3) = <<ShowerHour, ShowerHour, DrizzleHour>>
    /\ "Umbrella recommended" \in Labels(ret.badges)

\* C6: buildAdvice on an empty hour list returns no badges and the text
\* 'No weather data available for guidance.', none of the sentence clauses.
C6_EmptyInput ==
    (op = "buildAdvice" /\ Len(hours) = 0) =>
        /\ ret.badges = <<>>
        /\ ret.text = "No weather data available for guidance."

C6_Witness ==
    /\ op = "buildAdvice"
    /\ hours = <<>>
    /\ ret.badges = <<>>

\* The stats of the first k hours of hs, from the definitions.
IsStatsOf(stats, hs, k) ==
    LET w == Window(hs, k)
    IN  IF w = {}
        THEN /\ stats.minApparent = 0 /\ stats.maxApparent = 0
             /\ stats.avgApparent.num = 0
             /\ stats.maxPOP = 0 /\ stats.sumPrecip = 0
             /\ stats.maxUV = 0 /\ stats.maxWind = 0
        ELSE /\ stats.minApparent = TrueMinApparent(hs, k)
             /\ stats.maxApparent = TrueMaxApparent(hs, k)
             /\ stats.avgApparent.num * Cardinality(w)
                    = TrueSumApparent(hs, k) * stats.avgApparent.den
             /\ stats.maxPOP = TrueMaxPop(hs, k)
             /\ stats.sumPrecip = TrueSumPrecip(hs, k)
             /\ stats.maxUV = TrueMaxUv(hs, k)
             /\ stats.maxWind = TrueMaxWind(hs, k)

\* C7: for a window size n >= 1, sliceNextHours returns the first
\* min(n, length) hours in their order, and the stats of those hours only.
C7_PrefixWindow ==
    (op = "sliceNextHours" /\ arg >= 1) =>
        LET k == IF arg <= Len(hours) THEN arg ELSE Len(hours)
        IN  /\ Len(ret.hours) = k
            /\ \A i \in 1..k : ret.hours[i] = hours[i]
            /\ IsStatsOf(ret.stats, hours, arg)

\* A window shorter than the list, whose last hour and the hour after it
\* differ.
C7_Witness ==
    /\ op = "sliceNextHours"
    /\ arg >= 1
    /\ arg < Len(hours)
    /\ hours[arg] # hours[arg + 1]
    /\ Len(ret.hours) = arg

\* C8: for an empty hour list, sliceNextHours with n >= 1 returns an empty
\* window and stats whose seven fields are 0, and computeStats returns the
\* same stats.
C8_EmptyWindowZeroStats ==
    /\ (op = "sliceNextHours" /\ hours = <<>> /\ arg >= 1) =>
           /\ ret.hours = <<>>
           /\ IsStatsOf(ret.stats, <<>>, arg)
    /\ (op = "computeStats" /\ hours = <<>>) =>
           /\ IsStatsOf(ret, <<>>, 0)
           /\ ret = sliceNextHours(<<>>, 1).stats

C8_Witness ==
    /\ op = "sliceNextHours"
    /\ hours = <<>>
    /\ arg >= 1
    /\ ret.stats.maxWind = 0

NearestTenth(x) ==
    CHOOSE r \in (x - 10)..(x + 10) :
        r % 10 = 0 /\ r - 5 <= x /\ x < r + 5

\* The result when the heat-index branch is not taken.
WindChillOrAir(a) ==
    IF a.temp <= 1000 /\ a.wind >= 480
    THEN WindChill(a.temp, a.wind)
    ELSE NearestTenth(a.temp)

\* C11: without a valid measured value, computeApparentTemperature takes the
\* heat-index branch exactly when temp >= 27 and humidity >= 40: at temp 27,
\* humidity 40 the result is the heat index 26.9; at temp 26.9, or at a
\* humidity below 40, the wind-chill or air-temperature result is returned.
C11_HeatIndexBoundary ==
    (op = "computeApparentTemperature" /\ ~IsNumber(arg.apparent)) =>
        /\ (arg.temp >= 2700 /\ arg.humidity >= 4000) =>
               ret = HeatIndex(arg.temp, arg.humidity)
        /\ (arg.temp < 2700 \/ arg.humidity < 4000) =>
               ret = WindChillOrAir(arg)
        /\ (arg.temp = 2700 /\ arg.humidity = 4000) => ret = 2690
        /\ arg.temp = 2690 => ret = 2690
        /\ (arg.temp = 2700 /\ arg.humidity = 3900) => ret = 2700

C11_Witness ==
    /\ op = "computeApparentTemperature"
    /\ ~IsNumber(arg.apparent)
    /\ arg.temp = 2700
    /\ arg.humidity = 4000
    /\ ret = 2690

\* C12: without a valid measured value and with the heat-index condition
\* false, the wind-chill branch is taken exactly when temp <= 10 and
\* wind >= 4.8 (at temp 10, wind 4.8 the result is the wind chill 9.8); in
\* every remaining case the result is the air temperature rounded to one
\* decimal.
C12_WindChillBoundary ==
    (/\ op = "computeApparentTemperature"
     /\ ~IsNumber(arg.apparent)
     /\ ~(arg.temp >= 2700 /\ arg.humidity >= 4000)) =>
        /\ IF arg.temp <= 1000 /\ arg.wind >= 480
           THEN ret = WindChill(arg.temp, arg.wind)
           ELSE ret = NearestTenth(arg.temp)
        /\ (arg.temp = 1000 /\ arg.wind = 480) => ret = 980
        /\ (arg.temp = 1010 /\ arg.wind = 480) => ret = 1010
        /\ (arg.temp = 1000 /\ arg.wind = 470) => ret = 1000
        /\ arg.temp = 1234 => ret = 1230

C12_Witness ==
    /\ op = "computeApparentTemperature"
    /\ ~IsNumber(arg.apparent)
    /\ arg.temp = 1000
    /\ arg.wind = 480
    /\ ret = 980

\* ------------------------------------------------------------------------
\* generateOutfitAdvice: the other groups, the order and the items

\* C13: the rain, UV and wind groups each give at most one item, by first
\* match: umbrella-rain iff maxPOP >= 70 or sumPrecip > 2, else
\* umbrella-maybe iff maxPOP >= 40 or sumPrecip > 0.5; sunscreen-high iff
\* maxUV >= 8, else sunscreen-medium iff maxUV >= 6, else sunglasses iff
\* maxUV >= 3; wind-warning iff maxWind >= 50, else wind-caution iff
\* maxWind >= 30.
C13_RainUvWindGroups ==
    op = "generateOutfitAdvice" =>
      LET ids == Ids(ret)
          heavy == arg.maxPOP >= 7000 \/ arg.sumPrecip > 200
          CountOf(group) ==
              Cardinality({ i \in DOMAIN ret : ret[i].id \in group })
      IN  /\ "umbrella-rain" \in ids <=> heavy
          /\ "umbrella-maybe" \in ids <=>
                 (~heavy /\ (arg.maxPOP >= 4000 \/ arg.sumPrecip > 50))
          /\ "sunscreen-high" \in ids <=> arg.maxUV >= 800
          /\ "sunscreen-medium" \in ids <=>
                 (arg.maxUV < 800 /\ arg.maxUV >= 600)
          /\ "sunglasses" \in ids <=> (arg.maxUV < 600 /\ arg.maxUV >= 300)
          /\ "wind-warning" \in ids <=> arg.maxWind >= 5000
          /\ "wind-caution" \in ids <=>
                 (arg.maxWind < 5000 /\ arg.maxWind >= 3000)
          /\ CountOf({"umbrella-rain", "umbrella-maybe"}) <= 1
          /\ CountOf({"sunscreen-high", "sunscreen-medium", "sunglasses"}) <= 1
          /\ CountOf({"wind-warning", "wind-caution"}) <= 1

\* umbrella-maybe from the precipitation amount alone, beside a UV and a
\* wind item.
C13_Witness ==
    /\ op = "generateOutfitAdvice"
    /\ arg.maxPOP < 4000
    /\ arg.sumPrecip = 60
    /\ {"umbrella-maybe", "sunglasses", "wind-caution"} \subseteq Ids(ret)

\* C14: perfect-weather is produced exactly when 20 <= avgApparent <= 25 and
\* maxPOP < 30 and maxWind < 20, whichever other items fired.
C14_PerfectWeather ==
    op = "generateOutfitAdvice" =>
        ("perfect-weather" \in Ids(ret) <=>
            /\ arg.avgApparent.num >= 2000 * arg.avgApparent.den
            /\ arg.avgApparent.num <= 2500 * arg.avgApparent.den
            /\ arg.maxPOP < 3000
            /\ arg.maxWind < 2000)

\* perfect-weather at a mean of 25, beside a clothing and a rain item.
C14_Witness ==
    /\ op = "generateOutfitAdvice"
    /\ arg.avgApparent = Frac(2500, 1)
    /\ {"perfect-weather", "layered-clothing", "umbrella-rain"}
           \subseteq Ids(ret)

\* The position of an item's group in the table of rules.
GroupRank(id) ==
    CASE id \in ClothingChainIds -> 1
      [] id = "layered-clothing" -> 2
      [] id \in {"umbrella-rain", "umbrella-maybe"} -> 3
      [] id \in {"sunscreen-high", "sunscreen-medium", "sunglasses"} -> 4
      [] id \in {"wind-warning", "wind-caution"} -> 5
      [] id = "perfect-weather" -> 6

\* C15: the items appear in the order clothing-chain item, layered-clothing,
\* rain item, UV item, wind item, perfect-weather; no id occurs twice and
\* the list has at most six items.
C15_ItemOrder ==
    op = "generateOutfitAdvice" =>
        /\ \A i, j \in DOMAIN ret :
               i < j => GroupRank(ret[i].id) < GroupRank(ret[j].id)
        /\ \A i, j \in DOMAIN ret : ret[i].id = ret[j].id => i = j
        /\ Len(ret) <= 6

\* A list with an item of each of the first five groups.
C15_Witness ==
    /\ op = "generateOutfitAdvice"
    /\ Len(ret) = 5
    /\ ret[2].id = "layered-clothing"
    /\ ret[3].id = "umbrella-maybe"

\* The category and severity the table of rules fixes for each id.
RuleTable ==
    [id \in {"heavy-coat"} |-> <<"clothing", "high">>]
    @@ [id \in {"warm-layers", "light-clothing", "layered-clothing"}
            |-> <<"clothing", "medium">>]
    @@ [id \in {"comfortable-clothing"} |-> <<"clothing", "low">>]
    @@ [id \in {"umbrella-rain"} |-> <<"accessories", "high">>]
    @@ [id \in {"umbrella-maybe"} |-> <<"accessories", "medium">>]
    @@ [id \in {"sunscreen-high", "wind-warning"} |-> <<"safety", "high">>]
    @@ [id \in {"sunscreen-medium"} |-> <<"safety", "medium">>]
    @@ [id \in {"sunglasses", "perfect-weather"} |-> <<"comfort", "low">>]
    @@ [id \in {"wind-caution"} |-> <<"comfort", "medium">>]

\* The items of the code, one per id.
Catalogue ==
    {HeavyCoat, WarmLayers, LightClothing, ComfortableClothing,
     LayeredClothing, UmbrellaRain, UmbrellaMaybe, SunscreenHigh,
     SunscreenMedium, Sunglasses, WindWarning, WindCaution, PerfectWeather}

\* C16: every returned item carries the category and severity the table of
\* rules fixes for its id, and its message, icon and color are those of the
\* one item the code has for that id.
C16_ItemsFollowTheTable ==
    op = "generateOutfitAdvice" =>
        /\ \A i \in DOMAIN ret :
               /\ ret[i].id \in DOMAIN RuleTable
               /\ <<ret[i].category, ret[i].severity>> = RuleTable[ret[i].id]
               /\ ret[i] \in Catalogue
        /\ \A x, y \in Catalogue : x.id = y.id => x = y

C16_Witness ==
    /\ op = "generateOutfitAdvice"
    /\ Len(ret) = 5
    /\ ret[5].id = "wind-caution"
    /\ ret[5].category = "comfort"
    /\ ret[5].severity = "medium"

\* ------------------------------------------------------------------------
\* buildAdvice: the sentence and the hours it reads

\* C17: for a non-empty input, buildAdvice's text is, in this order, the
\* prefix 'Weather conditions for the next 6 hours: ', exactly one
\* temperature clause (avgApparent < 0 very cold; else > 25 warm to hot;
\* else >= 15 pleasant; else cool), at most one rain clause (3-hour max POP
\* >= 60 rain likely; else >= 30 possible precipitation), the wind clause iff
\* maxWind >= 10, the UV clause iff maxUV >= 6, and a final '.'.
C17_TextTemplate ==
    (op = "buildAdvice" /\ Len(hours) > 0) => ret.text = RuleText(hours)

\* The sentences whose rain clause is the one the first three hours give.
TextsWithRainClauseOf(hs) ==
    { "Weather conditions for the next 6 hours: " \o t
          \o (IF TrueMaxPop(hs, 3) >= 6000
              THEN ", with rain likely in the next 3 hours"
              ELSE IF TrueMaxPop(hs, 3) >= 3000
              THEN ", with possible precipitation"
              ELSE "")
          \o w \o u \o "." :
      t \in {"very cold temperatures with possible wind chill effects",
             "warm to hot conditions with elevated comfort concerns",
             "pleasant temperatures suitable for most outdoor activities",
             "cool conditions requiring appropriate clothing"},
      w \in {"", ", and notable wind activity"},
      u \in {"", ", with elevated UV exposure"} }

\* C18: buildAdvice's result depends only on the first 6 hours of its input
\* (it is the result for that prefix, and for that prefix followed by any
\* other hour), and its umbrella badge and rain clause only on the first 3.
C18_PrefixOnly ==
    (op = "buildAdvice" /\ Len(hours) > 0) =>
        LET first6 == SubSeq(hours, 1, Min2(6, Len(hours)))
            first3 == SubSeq(hours, 1, Min2(3, Len(hours)))
        IN  /\ ret = buildAdvice(first6)
            /\ Len(hours) >= 6 =>
                   \A h \in Samples : buildAdvice(Append(first6, h)) = ret
            /\ "Umbrella recommended" \in Labels(ret.badges) <=>
                   "Umbrella recommended" \in Labels(buildAdvice(first3).badges)
            /\ Len(hours) >= 3 =>
                   \A h \in Samples :
                       "Umbrella recommended" \in Labels(ret.badges) <=>
                           "Umbrella recommended"
                               \in Labels(buildAdvice(Append(first3, h)).badges)
            /\ ret.text \in TextsWithRainClauseOf(hours)

\* Six cold hours followed by a hot one: the seventh hour would change every
\* aggregate, and the result is that of the six.
C18_Witness ==
    /\ op = "buildAdvice"
    /\ Len(hours) = 7
    /\ \A i \in 1..6 : hours[i] = ColdWinterHour
    /\ hours[7] = HotSummerHour
    /\ ret.badges = <<"Wind caution", "Layered clothing recommended">>

\* ------------------------------------------------------------------------
\* computeStats on windows whose hours may lack a measured apparent
\* temperature.

\* An hour without a measured apparent temperature; humidity is None or
\* Some(h).
BareHour(temp, humidity, pop, precip, wind, uv) ==
    [temp |-> temp, apparent |-> None, pop |-> pop,
     precip |-> precip, wind |-> wind, uv |-> uv, humidity |-> humidity]

\* 32 degrees with no humidity: the heat index at the default humidity.
DryHeatHour == BareHour(3200, None, 1000, 0, 1500, 900)

\* 32 degrees at 80 % humidity.
HumidHour == BareHour(3200, Some(8000), 4500, 15, 1500, 750)

\* -5 degrees in a wind of 25 km/h: wind chill.
WindyBareHour == BareHour(-500, None, 2000, 0, 2500, 200)

\* 12.34 degrees in a wind of 4.7 km/h: neither formula.
CalmBareHour == BareHour(1234, None, 3000, 5, 470, 350)

StatsSamples ==
    {DryHeatHour, HumidHour, WindyBareHour, CalmBareHour,
     ShowerHour, FrostHour, RainyHour}

StatsHoursInputs ==
    UNION { [1..len -> StatsSamples] : len \in 0..MaxWindow }

InitStats ==
    /\ hours \in StatsHoursInputs
    /\ op = "init"
    /\ arg = <<>>
    /\ ret = <<>>
    /\ AppNotMounted
    /\ LimiterNotCalled

NextStats == ComputeStats

SpecStats == InitStats /\ [][NextStats]_vars

\* r is a whole number nearest to num / den.
IsNearestInteger(r, num, den) ==
    r % 100 = 0 /\ 2 * Abs(r * den - num) <= 100 * den

\* r has one decimal and is nearest to x.
IsNearestTenth(r, x) == r % 10 = 0 /\ 2 * Abs(r - x) <= 10

\* stats is raw after rounding: every field to the nearest integer,
\* sumPrecip to one decimal.
IsRounded(stats, raw) ==
    /\ IsNearestInteger(stats.minApparent, raw.minApparent, 1)
    /\ IsNearestInteger(stats.maxApparent, raw.maxApparent, 1)
    /\ stats.avgApparent.den = 1
    /\ IsNearestInteger(stats.avgApparent.num,
                        raw.avgApparent.num, raw.avgApparent.den)
    /\ IsNearestInteger(stats.maxPOP, raw.maxPOP, 1)
    /\ IsNearestTenth(stats.sumPrecip, raw.sumPrecip)
    /\ IsNearestInteger(stats.maxUV, raw.maxUV, 1)
    /\ IsNearestInteger(stats.maxWind, raw.maxWind, 1)

AllMeasured(hs) == \A i \in DOMAIN hs : IsNumber(hs[i].apparent)

\* The hour with the apparent temperature the claim gives it: the measured
\* one, else computeApparentTemperature of temp, humidity (50 by default)
\* and wind.
Resolved(h) ==
    [h EXCEPT !.apparent =
        IF IsNumber(h.apparent) THEN h.apparent
        ELSE Some(computeApparentTemperature(
                 [temp |-> h.temp,
                  humidity |-> IF IsNumber(h.humidity)
                               THEN h.humidity[1] ELSE 5000,
                  wind |-> h.wind,
                  apparent |-> None]))]

\* C19: for a window whose hours all have a measured apparent temperature,
\* computeStats(window) is the stats of sliceNextHours(window, length)
\* rounded (sumPrecip to one decimal, the others to the nearest integer);
\* an hour without a measured value counts with computeApparentTemperature
\* of its temp, its humidity or 50, and its wind.
C19_ComputeStatsRounds ==
    op = "computeStats" =>
        /\ AllMeasured(hours) =>
               IsRounded(ret, sliceNextHours(hours, Len(hours)).stats)
        /\ LET resolved == [i \in DOMAIN hours |-> Resolved(hours[i])]
           IN  IsRounded(ret, sliceNextHours(resolved, Len(hours)).stats)
        /\ hours = <<DryHeatHour>> => ret.maxApparent = 3400
        /\ hours = <<HumidHour>> => ret.maxApparent = 4400
        /\ hours = <<WindyBareHour>> => ret.minApparent = -1200
        /\ hours = <<CalmBareHour>> => ret.avgApparent = Frac(1200, 1)
        /\ hours = <<ShowerHour, FrostHour>> =>
               /\ ret.minApparent = 0 /\ ret.maxApparent = 2500
               /\ ret.avgApparent = Frac(1300, 1)
               /\ ret.sumPrecip = 10

\* A window with a measured hour and an hour resolved at the default
\* humidity.
C19_Witness ==
    /\ op = "computeStats"
    /\ hours = <<ShowerHour, DryHeatHour, FrostHour>>
    /\ ret.maxApparent = 3400
    /\ ret.minApparent = 0

\* ------------------------------------------------------------------------
\* Window sizes, overlapping conditions, badges against the sentence, and
\* the advice for no hours

\* C21: a window size <= 0 passed to sliceNextHours is rejected with an
\* InvalidInput failure rather than producing a window and stats.
C21_RejectsNonPositiveWindow ==
    (op = "sliceNextHours" /\ arg <= 0) =>
        /\ DOMAIN ret = {"kind"}
        /\ ret.kind = "InvalidInput"

\* computeApparentTemperature with the wind-chill test before the
\* heat-index test.
WindChillFirst(a) ==
    IF IsNumber(a.apparent) THEN a.apparent[1]
    ELSE IF WindChillApplies(a) THEN WindChill(a.temp, a.wind)
    ELSE IF HeatIndexApplies(a) THEN HeatIndex(a.temp, a.humidity)
    ELSE NearestTenth(a.temp)

\* C28: no input satisfies both the heat-index condition and the
\* wind-chill condition of computeApparentTemperature, so testing the wind
\* chill first gives the same result.
C28_ConditionsDisjoint ==
    op = "computeApparentTemperature" =>
        /\ ~(HeatIndexApplies(arg) /\ WindChillApplies(arg))
        /\ ret = WindChillFirst(arg)

\* Wind chill taken at a humidity and wind that would pass both tests but
\* for the temperature.
C28_Witness ==
    /\ op = "computeApparentTemperature"
    /\ ~IsNumber(arg.apparent)
    /\ arg.temp = 1000
    /\ arg.humidity = 8000
    /\ arg.wind = 2500
    /\ ret = 690

\* The sentence with temperature clause t (1 very cold, 2 warm to hot,
\* 3 pleasant, 4 cool), rain clause r (0 none, 1 possible, 2 likely), and
\* the wind and UV clauses present or not.
Sentence(t, r, w, u) ==
    "Weather conditions for the next 6 hours: "
    \o (CASE t = 1 -> "very cold temperatures with possible wind chill effects"
          [] t = 2 -> "warm to hot conditions with elevated comfort concerns"
          [] t = 3 -> "pleasant temperatures suitable for most outdoor activities"
          [] t = 4 -> "cool conditions requiring appropriate clothing")
    \o (CASE r = 0 -> ""
          [] r = 1 -> ", with possible precipitation"
          [] r = 2 -> ", with rain likely in the next 3 hours")
    \o (IF w THEN ", and notable wind activity" ELSE "")
    \o (IF u THEN ", with elevated UV exposure" ELSE "")
    \o "."

\* C29: in every buildAdvice result for a non-empty input the badges and
\* the sentence agree: the heat and layered badges never both appear; the
\* very-cold clause iff the layered badge, the warm-to-hot clause iff the
\* heat badge, the wind clause iff the wind badge, the UV clause iff the
\* sunscreen badge; and the umbrella badge implies the rain-likely clause.
C29_BadgesAgreeWithText ==
    (op = "buildAdvice" /\ Len(hours) > 0) =>
        LET labels == Labels(ret.badges)
        IN  /\ ~({"Heat comfort tips", "Layered clothing recommended"}
                    \subseteq labels)
            /\ \E t \in 1..4, r \in 0..2, w \in BOOLEAN, u \in BOOLEAN :
                   /\ ret.text = Sentence(t, r, w, u)
                   /\ t = 1 <=> "Layered clothing recommended" \in labels
                   /\ t = 2 <=> "Heat comfort tips" \in labels
                   /\ w <=> "Wind caution" \in labels
                   /\ u <=> "Sunscreen recommended" \in labels
                   /\ "Umbrella recommended" \in labels => r = 2

\* Rainy hours: the umbrella and wind badges with the rain-likely and wind
\* clauses.
C29_Witness ==
    /\ op = "buildAdvice"
    /\ Len(hours) > 0
    /\ ret.badges = <<"Umbrella recommended", "Wind caution">>
    /\ ret.text = Sentence(3, 2, TRUE, FALSE)

\* C30: for an empty hour list sliceNextHours gives the all-zero stats, for
\* which generateOutfitAdvice returns exactly one item, heavy-coat, of
\* severity high; the list is not empty, so the OutfitAdvice component
\* does not hide itself.
C30_NoHoursGivesHeavyCoat ==
    (op = "OutfitAdvice" /\ hours = <<>>) =>
        /\ IsStatsOf(arg, <<>>, 6)
        /\ Len(ret) = 1
        /\ ret[1].id = "heavy-coat"
        /\ ret[1].severity = "high"
        /\ ~(Len(ret) = 0)

C30_Witness ==
    /\ op = "OutfitAdvice"
    /\ hours = <<>>
    /\ arg.avgApparent.num = 0
    /\ Ids(ret) = {"heavy-coat"}

\* ========================================================================
\* fetchForecast (services/forecast.ts)

\* The fewest hours validateHourlyData accepts (line 137).
MinForecastHours == 24

\* The seven arrays of OpenMeteoHourlyData, in the order validateHourlyData
\* lists them (lines 107-115).
ArrayNames ==
    <<"time", "temperature_2m", "apparent_temperature",
      "precipitation_probability", "precipitation", "wind_speed_10m",
      "uv_index">>

\* The array check with no minimum length.
validateHourlyDataNoMinimum(data) ==
    IF \E k \in DOMAIN ArrayNames :
           data[ArrayNames[k]] = None \/ Len(data[ArrayNames[k]][1]) = 0
    THEN "ForecastDataError"
    ELSE IF \E j, k \in DOMAIN ArrayNames :
                Len(data[ArrayNames[j]][1]) # Len(data[ArrayNames[k]][1])
    THEN "ForecastDataError"
    ELSE "valid"

\* validateHourlyData, lines 106-141: the error it throws, or "valid".  A
\* field that is not an array is None, an array xs is Some(xs).
validateHourlyData(data) ==
    IF \E k \in DOMAIN ArrayNames :
           data[ArrayNames[k]] = None \/ Len(data[ArrayNames[k]][1]) = 0
    THEN "ForecastDataError"
    ELSE IF \E j, k \in DOMAIN ArrayNames :
                Len(data[ArrayNames[j]][1]) # Len(data[ArrayNames[k]][1])
    THEN "ForecastDataError"
    ELSE IF Len(data.time[1]) < MinForecastHours
    THEN "ForecastDataError"
    ELSE "valid"

\* mapToHourlyItems, lines 143-159.
mapToHourlyItems(data) ==
    [i \in 1..Len(data.time[1]) |->
        [isoTime  |-> data.time[1][i],
         temp     |-> Coalesce(data.temperature_2m[1][i], 0),
         apparent |-> Coalesce(data.apparent_temperature[1][i], 0),
         pop      |-> Coalesce(data.precipitation_probability[1][i], 0),
         precip   |-> Coalesce(data.precipitation[1][i], 0),
         wind     |-> Coalesce(data.wind_speed_10m[1][i], 0),
         uv       |-> Coalesce(data.uv_index[1][i], 0)]]

Rejects(name) == [kind |-> "rejected", error |-> name]

Resolves(value) == [kind |-> "resolved", value |-> value]

\* isNaN(lat) || isNaN(lon), then the two range tests (lines 163-173).
InvalidCoordinates(lat, lon) ==
    \/ ~IsNumber(lat) \/ ~IsNumber(lon)
    \/ lat[1] < -90 * Unit \/ lat[1] > 90 * Unit
    \/ lon[1] < -180 * Unit \/ lon[1] > 180 * Unit

\* fetchForecast, lines 161-211.  req.net is what the network did: "failed"
\* (fetch rejects), "http-error" (response.ok false), "not-json"
\* (response.json() rejects) or "ok"; req.body is the parsed body, None
\* for null, and body.hourly is None when absent.
fetchForecast(req) ==
    IF InvalidCoordinates(req.lat, req.lon) THEN Rejects("ForecastError")
    ELSE IF req.net # "ok" THEN Rejects("ForecastNetworkError")
    ELSE IF req.body = None THEN Rejects("ForecastNetworkError")
    ELSE IF req.body[1].hourly = None THEN Rejects("ForecastDataError")
    ELSE IF validateHourlyData(req.body[1].hourly[1]) # "valid"
    THEN Rejects(validateHourlyData(req.body[1].hourly[1]))
    ELSE Resolves(mapToHourlyItems(req.body[1].hourly[1]))

\* What stands in an array of an Open-Meteo response: -1 for a field that is
\* no array, else the array's length.
ArrayShapes == {-1, 0, MinForecastHours - 1, MinForecastHours}

\* Entry i of the k-th array: the time array holds the rank of its
\* timestamp, a number array holds a number or null.
ArrayEntry(k, i) ==
    IF k = 1 THEN i
    ELSE IF (i + k) % 5 = 0 THEN None ELSE Some(i * Unit + k)

\* The hourly object whose k-th array has shape shape[k].
HourlyOf(shape) ==
    [name \in { ArrayNames[k] : k \in DOMAIN ArrayNames } |->
        LET k == CHOOSE j \in DOMAIN ArrayNames : ArrayNames[j] = name
        IN  IF shape[k] < 0 THEN None
            ELSE Some([i \in 1..shape[k] |-> ArrayEntry(k, i)])]

Toronto == [lat |-> Some(4365), lon |-> Some(-7938)]

\* Requests: every combination of array shapes in an ok response at valid
\* coordinates; the other outcomes of the network; coordinates that are NaN
\* or out of range with a response that would be valid.
ForecastRequests ==
    LET full == [k \in DOMAIN ArrayNames |-> MinForecastHours]
        good == Some([hourly |-> Some(HourlyOf(full))])
    IN  { [lat |-> Toronto.lat, lon |-> Toronto.lon, net |-> "ok",
           body |-> Some([hourly |-> Some(HourlyOf(shape))])] :
            shape \in [DOMAIN ArrayNames -> ArrayShapes] }
        \cup { [lat |-> Toronto.lat, lon |-> Toronto.lon, net |-> "ok",
                body |-> b] : b \in {None, Some([hourly |-> None])} }
        \cup { [lat |-> Toronto.lat, lon |-> Toronto.lon, net |-> n,
                body |-> b] :
                 n \in {"failed", "http-error", "not-json"},
                 b \in {None, good} }
        \cup { [lat |-> la, lon |-> lo, net |-> "ok", body |-> good] :
                 la \in {None, Some(-9001), Some(-9000), Some(9000),
                         Some(9001)},
                 lo \in {None, Some(-18001), Some(-18000), Some(18000),
                         Some(18001)} }

InitForecast ==
    /\ hours = <<>>
    /\ op = "init"
    /\ arg \in ForecastRequests
    /\ ret = <<>>
    /\ AppNotMounted
    /\ LimiterNotCalled

FetchForecast ==
    /\ op' = "fetchForecast"
    /\ ret' = fetchForecast(arg)
    /\ UNCHANGED <<hours, arg, appVars, limiterVars>>

NextForecast == FetchForecast

SpecForecast == InitForecast /\ [][NextForecast]_vars

\* The arrays of an hourly object are all arrays, non-empty, of one length
\* of at least 24.
SevenGoodArrays(h) ==
    /\ \A k \in DOMAIN ArrayNames : h[ArrayNames[k]] # None
    /\ \A k \in DOMAIN ArrayNames : Len(h[ArrayNames[k]][1]) > 0
    /\ \A k \in DOMAIN ArrayNames :
           Len(h[ArrayNames[k]][1]) = Len(h["time"][1])
    /\ Len(h["time"][1]) >= 24

\* The response of a request has seven good arrays.
GoodResponse(req) ==
    /\ req.body # None
    /\ req.body[1].hourly # None
    /\ SevenGoodArrays(req.body[1].hourly[1])

\* A resolved list has one item per time entry, in the same order.
OneItemPerTimeEntry(req, items) ==
    LET h == req.body[1].hourly[1]
    IN  /\ Len(items) = Len(h["time"][1])
        /\ \A i \in DOMAIN items : items[i].isoTime = h["time"][1][i]

\* C22 as stated: fetchForecast resolves with a list only when the seven
\* hourly arrays of the response are arrays, non-empty, of equal length and
\* at least 24 long; in every other case it rejects with a
\* ForecastDataError; a resolved list has one item per time entry, in order.
C22_RejectsWithDataError ==
    op = "fetchForecast" =>
        /\ ret.kind = "resolved" => GoodResponse(arg)
        /\ ret.kind = "resolved" => OneItemPerTimeEntry(arg, ret.value)
        /\ ret.kind # "resolved" => ret = Rejects("ForecastDataError")

\* C22 amended: with valid coordinates and an ok response whose body is an
\* object, fetchForecast resolves iff the seven arrays are good, with one
\* item per time entry in order (a null entry of a number array read as 0),
\* and otherwise rejects with a ForecastDataError; when the request fails,
\* the status is not ok or the body is not JSON or is null, it rejects with
\* a ForecastNetworkError; invalid coordinates reject with a ForecastError.
C22_Amended ==
    op = "fetchForecast" =>
        LET validCoordinates ==
                /\ arg.lat # None /\ arg.lon # None
                /\ arg.lat[1] >= -9000 /\ arg.lat[1] <= 9000
                /\ arg.lon[1] >= -18000 /\ arg.lon[1] <= 18000
            parsed == arg.net = "ok" /\ arg.body # None
        IN  /\ ret.kind = "resolved" <=>
                   (validCoordinates /\ parsed /\ GoodResponse(arg))
            /\ ret.kind = "resolved" =>
                   /\ OneItemPerTimeEntry(arg, ret.value)
                   /\ \A i \in DOMAIN ret.value :
                          ret.value[i].temp
                              = (IF (i + 2) % 5 = 0 THEN 0 ELSE i * 100 + 2)
            /\ (validCoordinates /\ parsed /\ ~GoodResponse(arg)) =>
                   ret = Rejects("ForecastDataError")
            /\ (validCoordinates /\ ~parsed) =>
                   ret = Rejects("ForecastNetworkError")
            /\ ~validCoordinates => ret = Rejects("ForecastError")

\* Twenty-four hours resolved; the third temperature was null.
C22_Witness ==
    /\ op = "fetchForecast"
    /\ ret.kind = "resolved"
    /\ Len(ret.value) = 24
    /\ ret.value[3].temp = 0
    /\ ret.value[24].isoTime = 24

\* ========================================================================
\* fetchAlerts (services/forecast.ts 438-578).  A time is a number of hours
\* from the moment of the call, so an alert is active when expires > 0.

\* a || b || c for optional strings and times.
Or3(a, b, c) == IF a # None THEN a[1] ELSE IF b # None THEN b[1] ELSE c

WeatherAdvisory ==
    [title |-> "Weather Advisory",
     description |-> "Changing weather conditions expected. Monitor local forecasts and be prepared for varying conditions throughout the day.",
     severity |-> "Minor", effective |-> 0, expires |-> 24]

ExtremeColdWarning ==
    [title |-> "Extreme Cold Warning",
     description |-> "Extremely cold temperatures or wind chill values are expected. Dress warmly in layers and limit time outdoors.",
     severity |-> "Severe", effective |-> 0, expires |-> 48]

HeatWarning ==
    [title |-> "Heat Warning",
     description |-> "High temperatures and humidity may pose health risks. Stay hydrated and seek air conditioning when possible.",
     severity |-> "Moderate", effective |-> 0, expires |-> 12]

\* getMockAlerts, lines 438-472.
getMockAlerts(lat) ==
    <<WeatherAdvisory>>
    \o (IF lat > 60 * Unit THEN <<ExtremeColdWarning>>
        ELSE IF lat < 25 * Unit THEN <<HeatWarning>>
        ELSE <<>>)

\* The alert made of a feature's properties (lines 522-533).
AlertOf(props) ==
    [title       |-> Or3(props.headline, props.event, "Weather Alert"),
     description |-> Or3(props.description, props.instruction,
                         "No description available"),
     severity    |-> Or3(props.severity, props.urgency, "Unknown"),
     effective   |-> Or3(props.effective, props.onset, 0),
     expires     |-> Or3(props.expires, props.ends, 24)]

\* xs.filter(keep), in order.
RECURSIVE SelectAlerts(_)
SelectAlerts(features) ==
    IF features = <<>> THEN <<>>
    ELSE LET f == Head(features)
             rest == SelectAlerts(Tail(features))
         IN  IF f[1].properties = None THEN rest
             ELSE IF AlertOf(f[1].properties[1]).expires > 0
             THEN <<AlertOf(f[1].properties[1])>> \o rest
             ELSE rest

\* fetchAlerts with an unknown exception left uncaught.
fetchAlertsRethrowing(req) ==
    IF req.net # "ok" THEN Resolves(getMockAlerts(req.lat))
    ELSE IF req.body = None THEN Rejects("TypeError")
    ELSE IF req.body[1].features = None THEN Resolves(<<>>)
    ELSE IF \E i \in DOMAIN req.body[1].features[1] :
                req.body[1].features[1][i] = None
    THEN Rejects("TypeError")
    ELSE Resolves(SelectAlerts(req.body[1].features[1]))

\* fetchAlerts, lines 476-578.  req.net is "failed" (fetch rejects with a
\* TypeError), "timeout" (the abort signal fires), "http-error", "not-json"
\* or "ok"; req.body is None for a null body; body.features is None when
\* absent or no array; a feature is None when null.  Reading a property of
\* null throws, and the catch returns the mock alerts.
fetchAlerts(req) ==
    IF req.net # "ok" THEN Resolves(getMockAlerts(req.lat))
    ELSE IF req.body = None THEN Resolves(getMockAlerts(req.lat))
    ELSE IF req.body[1].features = None THEN Resolves(<<>>)
    ELSE IF \E i \in DOMAIN req.body[1].features[1] :
                req.body[1].features[1][i] = None
    THEN Resolves(getMockAlerts(req.lat))
    ELSE Resolves(SelectAlerts(req.body[1].features[1]))

NoProps ==
    [headline |-> None, event |-> None, description |-> None,
     instruction |-> None, severity |-> None, urgency |-> None,
     effective |-> None, onset |-> None, expires |-> None, ends |-> None]

StormProps ==
    [NoProps EXCEPT !.headline = Some("Storm warning"),
                    !.description = Some("Severe thunderstorms"),
                    !.severity = Some("Severe"),
                    !.effective = Some(-1), !.expires = Some(5)]

ExpiredProps ==
    [NoProps EXCEPT !.event = Some("Fog advisory"),
                    !.urgency = Some("Past"), !.ends = Some(-2)]

Features ==
    {None, Some([properties |-> None]), Some([properties |-> Some(NoProps)]),
     Some([properties |-> Some(StormProps)]),
     Some([properties |-> Some(ExpiredProps)])}

AlertBodies ==
    {None, Some([features |-> None])}
    \cup { Some([features |-> Some(fs)]) :
             fs \in UNION { [1..n -> Features] : n \in 0..MaxFeatures } }

AlertRequests ==
    { [lat |-> la, net |-> "ok", body |-> b] :
        la \in {2499, 2500, 6000, 6001}, b \in AlertBodies }
    \cup { [lat |-> la, net |-> n, body |-> None] :
             la \in {2499, 2500, 6000, 6001},
             n \in {"failed", "timeout", "http-error", "not-json"} }

InitAlerts ==
    /\ hours = <<>>
    /\ op = "init"
    /\ arg \in AlertRequests
    /\ ret = <<>>
    /\ AppNotMounted
    /\ LimiterNotCalled

FetchAlerts ==
    /\ op' = "fetchAlerts"
    /\ ret' = fetchAlerts(arg)
    /\ UNCHANGED <<hours, arg, appVars, limiterVars>>

NextAlerts == FetchAlerts

SpecAlerts == InitAlerts /\ [][NextAlerts]_vars

\* C27 as stated: fetchAlerts never rejects; on an HTTP error status, a
\* timeout, a network failure or any other exception it resolves with the
\* mock alert list, which has at least one alert; on a successful response
\* without a features array it resolves with an empty list.
C27_NeverRejects ==
    op = "fetchAlerts" =>
        /\ ret.kind = "resolved"
        /\ arg.net # "ok" =>
               /\ Len(ret.value) >= 1
               /\ ret.value[1].title = "Weather Advisory"
        /\ (arg.net = "ok"
              /\ (arg.body = None \/ arg.body[1].features = None)) =>
               ret.value = <<>>

\* C27 amended: fetchAlerts never rejects; on an HTTP error status, a
\* timeout, a network failure, a body that is not JSON, a null body or a
\* null feature it resolves with the mock alert list, which starts with the
\* Weather Advisory, followed by the Extreme Cold Warning above latitude 60
\* or the Heat Warning below latitude 25; on a successful response whose
\* body is an object without a features array it resolves with an empty
\* list.
C27_Amended ==
    op = "fetchAlerts" =>
        LET thrown ==
                \/ arg.net # "ok"
                \/ arg.body = None
                \/ /\ arg.body[1].features # None
                   /\ None \in { arg.body[1].features[1][i] :
                                   i \in DOMAIN arg.body[1].features[1] }
            titles == [i \in DOMAIN ret.value |-> ret.value[i].title]
        IN  /\ ret.kind = "resolved"
            /\ thrown =>
                   /\ Len(ret.value) >= 1
                   /\ titles =
                        (IF arg.lat > 6000
                         THEN <<"Weather Advisory", "Extreme Cold Warning">>
                         ELSE IF arg.lat < 2500
                         THEN <<"Weather Advisory", "Heat Warning">>
                         ELSE <<"Weather Advisory">>)
            /\ (~thrown /\ arg.body[1].features = None) => ret.value = <<>>
            /\ (~thrown /\ arg.body[1].features # None) =>
                   /\ Len(ret.value) <= Len(arg.body[1].features[1])
                   /\ \A i \in DOMAIN ret.value : ret.value[i].expires > 0

\* A null body of an ok response: the mock list, not the empty list.
C27_Witness ==
    /\ op = "fetchAlerts"
    /\ arg.net = "ok"
    /\ arg.body = None
    /\ arg.lat = 2499
    /\ Len(ret.value) = 2
    /\ ret.value[2].title = "Heat Warning"

\* ========================================================================
\* geocodeCity and its rate limiter (services/forecast.ts 305-336).  Times
\* are milliseconds.

\* 1 second between requests (line 307).
MIN_REQUEST_INTERVAL == 1000

\* The clock advances in steps of a quarter of a second.
ClockStep == 5 * 50

\* Date.now() is far from 0, the first value of lastRequestTime: the clock
\* starts where a first call does not wait.
ClockStart == MIN_REQUEST_INTERVAL

Queries == {"", "   ", "Toronto"}

\* query.trim() is empty (line 322).
IsBlank(query) == query \in {"", "   "}

InitLimiter ==
    /\ hours = <<>>
    /\ op = "init"
    /\ arg = <<>>
    /\ ret = <<>>
    /\ AppNotMounted
    /\ lastRequestTime = 0
    /\ now = ClockStart
    /\ calls = [i \in 1..MaxCalls |-> [pc |-> "idle", wake |-> 0]]
    /\ sent = <<>>

\* Time passes.  A timer may fire late, never early.
Tick ==
    /\ now + ClockStep <= ClockStart + MaxElapsed
    /\ now' = now + ClockStep
    /\ UNCHANGED <<hours, op, arg, ret, appVars, lastRequestTime, calls, sent>>

\* geocodeCity(query) up to its first suspension: a blank query throws
\* (lines 322-324); else waitForRateLimit (lines 309-319) either sets the
\* timer and suspends, or records the time, and then the request is sent
\* (line 332).
GeocodeCity(i) ==
    /\ calls[i].pc = "idle"
    /\ \E query \in Queries :
         IF IsBlank(query)
         THEN /\ calls' = [calls EXCEPT ![i].pc = "rejected"]
              /\ UNCHANGED <<lastRequestTime, sent>>
         ELSE LET timeSinceLastRequest == now - lastRequestTime
              IN  IF timeSinceLastRequest < MIN_REQUEST_INTERVAL
                  THEN /\ calls' = [calls EXCEPT ![i] =
                               [pc |-> "waiting",
                                wake |-> now + (MIN_REQUEST_INTERVAL
                                                - timeSinceLastRequest)]]
                       /\ UNCHANGED <<lastRequestTime, sent>>
                  ELSE /\ lastRequestTime' = now
                       /\ sent' = Append(sent, now)
                       /\ calls' = [calls EXCEPT ![i].pc = "sent"]
    /\ UNCHANGED <<hours, op, arg, ret, appVars, now>>

\* The timer of line 315 fires: lastRequestTime = Date.now() (line 318) and
\* the request is sent (line 332).
TimerFires(i) ==
    /\ calls[i].pc = "waiting"
    /\ now >= calls[i].wake
    /\ lastRequestTime' = now
    /\ sent' = Append(sent, now)
    /\ calls' = [calls EXCEPT ![i].pc = "sent"]
    /\ UNCHANGED <<hours, op, arg, ret, appVars, now>>

NextLimiter ==
    \/ Tick
    \/ \E i \in 1..MaxCalls : GeocodeCity(i)
    \/ \E i \in 1..MaxCalls : TimerFires(i)

SpecLimiter == InitLimiter /\ [][NextLimiter]_vars

\* C23: any two outbound Nominatim requests sent by geocodeCity are at
\* least 1000 ms apart, for every interleaving of calls, two calls waiting
\* in waitForRateLimit at the same time included.
C23_RequestsOneSecondApart ==
    \A i, j \in DOMAIN sent : i < j => sent[j] - sent[i] >= 1000

\* ========================================================================
\* The App (App.tsx) and its SearchBar (src/unnamed/part_001).  A load is
\* an async function suspended at a request: fn is the function, pc the
\* request it awaits, city the city it asked for.  An action is the code
\* that runs from one suspension to the next.

Oakville ==
    [name |-> "Oakville, Ontario, Canada", lat |-> 4345, lon |-> -7968]

TorontoCity ==
    [name |-> "Toronto, Ontario, Canada", lat |-> 4365, lon |-> -7938]

SingaporeCity == [name |-> "Singapore", lat |-> 135, lon |-> 10382]

\* The cities a search finds.
SearchCities == {TorontoCity, SingaporeCity}

\* The list fetchForecast resolves with for a city: one item per hour.
ForecastOf(c) ==
    [i \in 1..MinForecastHours |->
        [isoTime |-> i, temp |-> 3000 - c.lat \div 2 + i * 10,
         apparent |-> 3000 - c.lat \div 2 + i * 10, pop |-> (i * 300) % 10000,
         precip |-> 0, wind |-> 1000 + c.lon \div 100, uv |-> i % 8 * Unit]]

\* An alert the service has for a city.
ServiceAlert(c) ==
    [title |-> "Special weather statement", description |-> c.name,
     severity |-> "Moderate", effective |-> 0, expires |-> 6]

\* The lists fetchAlerts may resolve with for a city.
AlertsFor(c) == {getMockAlerts(c.lat), <<>>, <<ServiceAlert(c)>>}

\* The messages of the errors geocodeCity and fetchForecast reject with.
GeocodeErrors ==
    {"No results found", "Network connection failed. Please check your internet connection."}

ForecastErrors ==
    {"Insufficient forecast data", "Network connection failed. Please check your internet connection."}

Load(fn, pc, c) == [fn |-> fn, pc |-> pc, city |-> c]

Remove(ls, i) == SubSeq(ls, 1, i - 1) \o SubSeq(ls, i + 1, Len(ls))

\* After the first render: the effect has called loadDefaultCity, which
\* set status to loading and awaits geocodeCity (App.tsx 41-46).
InitApp ==
    /\ hours = <<>>
    /\ op = "init"
    /\ arg = <<>>
    /\ ret = <<>>
    /\ LimiterNotCalled
    /\ status = "loading"
    /\ error = None
    /\ city = None
    /\ alerts = <<>>
    /\ isSubmitting = FALSE
    /\ loads = <<Load("loadDefaultCity", "geocode", Oakville)>>

\* SearchBar.handleSubmit up to its await (part_001 50-61).  The form is
\* disabled while the status is loading (App.tsx 181).
Submit ==
    /\ ~isSubmitting
    /\ status # "loading"
    /\ Len(loads) < MaxInFlight
    /\ \E c \in SearchCities :
           loads' = Append(loads, Load("handleSubmit", "geocode", c))
    /\ isSubmitting' = TRUE
    /\ status' = "loading"
    /\ error' = None
    /\ UNCHANGED <<hours, op, arg, ret, city, alerts, limiterVars>>

\* The Try Toronto button of the empty state (App.tsx 152-161) calls
\* handleSearchResult, which runs up to its await (App.tsx 73-82).
TryToronto ==
    /\ status \notin {"error", "loading"}
    /\ hours = <<>>
    /\ Len(loads) < MaxInFlight
    /\ loads' = Append(loads, Load("handleSearchResult", "forecast", TorontoCity))
    /\ city' = Some(TorontoCity)
    /\ status' = "loading"
    /\ error' = None
    /\ UNCHANGED <<hours, op, arg, ret, alerts, isSubmitting, limiterVars>>

\* handleRetry (App.tsx 122-128), the button of the error state.
Retry ==
    /\ status = "error"
    /\ status' = "idle"
    /\ error' = None
    /\ UNCHANGED <<hours, op, arg, ret, city, alerts, isSubmitting, loads,
                   limiterVars>>

\* geocodeCity resolves.  loadDefaultCity goes on to fetchForecast
\* (App.tsx 47).  handleSubmit calls onResult, which is handleSearchResult
\* up to its await, then onError(''), which is handleSearchError, then its
\* finally block (part_001 62-72).
GeocodeResolves(i) ==
    /\ loads[i].pc = "geocode"
    /\ IF loads[i].fn = "loadDefaultCity"
       THEN /\ loads' = [loads EXCEPT ![i].pc = "forecast"]
            /\ UNCHANGED <<status, error, city, isSubmitting>>
       ELSE /\ loads' = [loads EXCEPT ![i] =
                            Load("handleSearchResult", "forecast",
                                 loads[i].city)]
            /\ city' = Some(loads[i].city)
            /\ status' = "error"
            /\ error' = Some("")
            /\ isSubmitting' = FALSE
    /\ UNCHANGED <<hours, op, arg, ret, alerts, limiterVars>>

\* geocodeCity rejects: the catch of loadDefaultCity (App.tsx 57-67) or of
\* handleSubmit with its finally block (part_001 65-72).
GeocodeRejects(i) ==
    /\ loads[i].pc = "geocode"
    /\ \E message \in GeocodeErrors : error' = Some(message)
    /\ status' = "error"
    /\ isSubmitting' =
           (IF loads[i].fn = "handleSubmit" THEN FALSE ELSE isSubmitting)
    /\ loads' = Remove(loads, i)
    /\ UNCHANGED <<hours, op, arg, ret, city, alerts, limiterVars>>

\* fetchForecast resolves: the load goes on to fetchAlerts (App.tsx 48, 83).
ForecastResolves(i) ==
    /\ loads[i].pc = "forecast"
    /\ loads' = [loads EXCEPT ![i].pc = "alerts"]
    /\ UNCHANGED <<hours, op, arg, ret, status, error, city, alerts,
                   isSubmitting, limiterVars>>

\* A rejected forecast that leaves the status as it is.
ForecastRejectsUnhandled(i) ==
    /\ loads[i].pc = "forecast"
    /\ loads' = Remove(loads, i)
    /\ UNCHANGED <<hours, op, arg, ret, status, error, city, alerts,
                   isSubmitting, limiterVars>>

\* fetchForecast rejects: the catch of the load (App.tsx 57-67, 91-101).
ForecastRejects(i) ==
    /\ loads[i].pc = "forecast"
    /\ \E message \in ForecastErrors : error' = Some(message)
    /\ status' = "error"
    /\ loads' = Remove(loads, i)
    /\ UNCHANGED <<hours, op, arg, ret, city, alerts, isSubmitting,
                   limiterVars>>

\* fetchAlerts resolves (it never rejects): loadDefaultCity stores the city
\* with the data (App.tsx 50-56), handleSearchResult the data alone
\* (App.tsx 85-90).
AlertsResolve(i) ==
    /\ loads[i].pc = "alerts"
    /\ \E list \in AlertsFor(loads[i].city) : alerts' = list
    /\ hours' = ForecastOf(loads[i].city)
    /\ status' = "ready"
    /\ IF loads[i].fn = "loadDefaultCity"
       THEN city' = Some(loads[i].city) /\ error' = None
       ELSE UNCHANGED <<city, error>>
    /\ loads' = Remove(loads, i)
    /\ UNCHANGED <<op, arg, ret, isSubmitting, limiterVars>>

RequestSettles ==
    \E i \in DOMAIN loads :
        \/ GeocodeResolves(i)
        \/ GeocodeRejects(i)
        \/ ForecastResolves(i)
        \/ ForecastRejects(i)
        \/ AlertsResolve(i)

NextApp ==
    \/ Submit
    \/ TryToronto
    \/ Retry
    \/ \E i \in DOMAIN loads : GeocodeResolves(i)
    \/ \E i \in DOMAIN loads : GeocodeRejects(i)
    \/ \E i \in DOMAIN loads : ForecastResolves(i)
    \/ \E i \in DOMAIN loads : ForecastRejects(i)
    \/ \E i \in DOMAIN loads : AlertsResolve(i)

SpecApp == InitApp /\ [][NextApp]_vars

\* Each network request eventually resolves or rejects.
SpecAppFair == SpecApp /\ WF_vars(RequestSettles)

\* C24: after a search whose geocoding succeeds, the SearchBar's onError('')
\* only clears previous errors: the App enters status 'error' only in a
\* step in which a geocode or forecast request fails.
C24_ErrorOnlyOnFailure ==
    [][(status # "error" /\ status' = "error") =>
           \E i \in DOMAIN loads : GeocodeRejects(i) \/ ForecastRejects(i)]_vars

\* C25: whenever the App status is 'ready', the stored hours and alerts are
\* the ones fetched for the stored city, for every interleaving of
\* searches.
C25_ReadyDataIsOfTheCity ==
    status = "ready" =>
        /\ city # None
        /\ hours = ForecastOf(city[1])
        /\ alerts \in AlertsFor(city[1])

\* C26: every load the App starts eventually leaves status 'loading' and
\* ends in 'ready' or 'error', provided each request eventually resolves or
\* rejects (the status leaves 'loading', and unless new loads keep being
\* started no load stays in flight); and the step in which an alerts request settles, whether with
\* the service's list or with the mock list of a failed request, sets
\* 'ready', never 'error'.
C26_LoadsEnd ==
    /\ (status = "loading") ~> (status \in {"ready", "error"})
    /\ ([]<>(loads = <<>>)) \/ ([]<><<Submit \/ TryToronto>>_vars)
    /\ [][(\E i \in DOMAIN loads : loads[i].pc = "alerts" /\ loads' = Remove(loads, i))
              => status' = "ready"]_vars

\* The default-city load has ended with the mock alerts of a failed alerts
\* request, and the status is ready.
C26_Witness ==
    /\ status = "ready"
    /\ loads = <<>>
    /\ city = Some(Oakville)
    /\ alerts = getMockAlerts(Oakville.lat)
    /\ hours = ForecastOf(Oakville)

====
